---- MODULE Spec2Model ----
(***************************************************************************)
(* fileDAG: a model of src/fileDAG.py.                                     *)
(*                                                                         *)
(* Two specifications cover the two halves of main():                      *)
(*   Spec    lines 26-30: the rows read from standard input are parsed     *)
(*           into (source-descriptor, target-descriptor) pairs and the     *)
(*           Digraph is constructed (deduplication, metadata merge, role   *)
(*           sets, colours and styles).                                    *)
(*   SpecIO  lines 56-60: the renderer writes the transient SVG file, the  *)
(*           annotation pass rewrites it, the result is written to         *)
(*           standard output and the file is unlinked.                     *)
(*                                                                         *)
(* Python strings are modelled as sequences of one-character strings, so   *)
(* that strip / split / replace / "in" are computed, not assumed.          *)
(***************************************************************************)
EXTENDS Integers, Sequences, FiniteSets, TLC

VARIABLES
    pc,             \* position of main()
    err,            \* the exception that ended main(), or "none"
    stdin,          \* the rows of the detailed summary (one record per data row)
    edge_list_in,   \* main: edge_list, the result of parse_detailed_summary
    edge_list,      \* Digraph.edge_list
    nodes_raw,      \* Digraph.nodes_raw
    edges,          \* Digraph.edges
    nodes,          \* Digraph.nodes
    src_nodes,      \* Digraph.src_nodes
    tgt_nodes,      \* Digraph.tgt_nodes
    n_src,          \* Digraph.n_src
    n_tgt,          \* Digraph.n_tgt
    basedirs,       \* Digraph.basedirs
    n_basedir,      \* Digraph.n_basedir
    src_color,      \* Digraph.src_color
    node_tp_style,  \* Digraph.node_tp_style
    doc,            \* the markup the renderer produces for this run
    tmp_exists,     \* whether the transient file tmp_<uuid>_output.svg exists
    tmp_lines,      \* the lines of the transient file
    file,           \* add_svg_style: the list `file`
    svg_string,     \* add_svg_style: the returned string
    stdout          \* what has been written to standard output

graphVars == <<edge_list, nodes_raw, edges, nodes, src_nodes, tgt_nodes,
               n_src, n_tgt, basedirs, n_basedir, src_color, node_tp_style>>
ioVars == <<doc, tmp_exists, tmp_lines, file, svg_string, stdout>>
vars == <<pc, err, stdin, edge_list_in, graphVars, ioVars>>

----------------------------------------------------------------------------
(* Python str operations on sequences of characters.                        *)

Range(s) == { s[i] : i \in 1..Len(s) }

\* The characters of the model in code point order (Python compares strings
\* code point by code point).
AsciiOrder ==
    << "\n", " ", "!", "\"", "#", "&", "*", ",", "-", ".", "/", "1",
       "4", "5", ":", ";", "<", "=", ">", "a", "b", "c", "d", "e",
       "f", "g", "h", "i", "j", "k", "l", "m", "n", "o", "p", "q",
       "r", "s", "t", "u", "v", "w", "x", "y", "z", "{", "}", "~" >>

Ord(c) == CHOOSE i \in 1..Len(AsciiOrder) : AsciiOrder[i] = c

\* s < t for Python strings.
RECURSIVE StrLess(_, _)
StrLess(s, t) ==
    IF t = <<>> THEN FALSE
    ELSE IF s = <<>> THEN TRUE
    ELSE IF Head(s) = Head(t) THEN StrLess(Tail(s), Tail(t))
    ELSE Ord(Head(s)) < Ord(Head(t))

\* sorted(S) for a set S of strings.
RECURSIVE Sorted(_)
Sorted(S) ==
    IF S = {} THEN <<>>
    ELSE LET m == CHOOSE x \in S : \A y \in S \ {x} : StrLess(x, y)
         IN  <<m>> \o Sorted(S \ {m})

\* s.startswith(p)
StartsWith(s, p) == Len(s) >= Len(p) /\ SubSeq(s, 1, Len(p)) = p

\* sub in s
Contains(sub, s) ==
    \E i \in 0..(Len(s) - Len(sub)) : SubSeq(s, i + 1, i + Len(sub)) = sub

\* s.replace(old, new), old non-empty: leftmost non-overlapping occurrences.
RECURSIVE Replace(_, _, _)
Replace(s, old, new) ==
    IF Len(s) < Len(old) THEN s
    ELSE IF StartsWith(s, old)
         THEN new \o Replace(SubSeq(s, Len(old) + 1, Len(s)), old, new)
         ELSE <<Head(s)>> \o Replace(Tail(s), old, new)

\* s.lstrip(chars): drops leading characters that belong to the SET chars.
RECURSIVE LStrip(_, _)
LStrip(s, chars) ==
    IF s # <<>> /\ Head(s) \in Range(chars) THEN LStrip(Tail(s), chars) ELSE s

\* s.rstrip(chars): drops trailing characters that belong to the SET chars.
RECURSIVE RStrip(_, _)
RStrip(s, chars) ==
    IF s # <<>> /\ s[Len(s)] \in Range(chars)
    THEN RStrip(SubSeq(s, 1, Len(s) - 1), chars)
    ELSE s

\* s.split(sep), sep non-empty
RECURSIVE Split(_, _)
Split(s, sep) ==
    IF Len(s) < Len(sep) THEN <<s>>
    ELSE IF StartsWith(s, sep)
         THEN << <<>> >> \o Split(SubSeq(s, Len(sep) + 1, Len(s)), sep)
         ELSE LET r == Split(Tail(s), sep)
              IN  << <<Head(s)>> \o r[1] >> \o Tail(r)

\* ''.join(lines)
RECURSIVE Join(_)
Join(lines) == IF lines = <<>> THEN <<>> ELSE Head(lines) \o Join(Tail(lines))

----------------------------------------------------------------------------
(* The input of Spec: the data rows of `snakemake --detailed-summary`.      *)

MaxRows == 2

KeyAX == <<"a", "/", "x">>
KeyBY == <<"b", "/", "y">>
KeyCZ == <<"c", "/", "z">>
Keys == {KeyAX, KeyBY, KeyCZ}

\* values of the comma-joined column input-file(s)
InputFields == {KeyAX, KeyBY, KeyBY \o <<",">> \o KeyCZ}

NoUpdate  == <<"n", "o", " ", "u", "p", "d", "a", "t", "e">>
Rebuild   == <<"r", "e", "b", "u", "i", "l", "d">>
NoUpdates == <<"n", "o", " ", "u", "p", "d", "a", "t", "e", "s">>
PlanTexts == {NoUpdate, Rebuild, NoUpdates}

RemovedTempFile == "removed temp file"
Statuses == {"ok", RemovedTempFile}

Rows == [output_file : Keys, input_files : InputFields, date : {"-"},
         rule : {"all"}, version : {"-"}, status : Statuses, plan : PlanTexts]

Inputs == UNION { [1..n -> Rows] : n \in 0..MaxRows }

----------------------------------------------------------------------------
(* parse_detailed_summary                                                   *)

Dst(r) == [node |-> r.output_file, date |-> r.date, rule |-> r.rule,
           version |-> r.version, status |-> r.status, plan |-> r.plan]

SrcDict(src) == [node |-> src, date |-> "", rule |-> "", version |-> "",
                 status |-> "", plan |-> <<>>]

RowEdges(r) ==
    LET parts == Split(r.input_files, <<",">>)
    IN  [i \in 1..Len(parts) |-> <<SrcDict(parts[i]), Dst(r)>>]

RECURSIVE parse_detailed_summary(_)
parse_detailed_summary(rows) ==
    IF rows = <<>> THEN <<>>
    ELSE (IF Head(rows).status = RemovedTempFile THEN <<>> ELSE RowEdges(Head(rows)))
         \o parse_detailed_summary(Tail(rows))

----------------------------------------------------------------------------
(* Digraph                                                                  *)

\* __init__: for e in edge_list: if e not in self.edge_list: append
RECURSIVE DedupAppend(_, _)
DedupAppend(el, acc) ==
    IF el = <<>> THEN acc
    ELSE DedupAppend(Tail(el),
                     IF Head(el) \in Range(acc) THEN acc ELSE Append(acc, Head(el)))

\* { t["node"]:t for _, t in self.edge_list }: a later pair replaces an earlier one
TargetSeed(el) ==
    [k \in { el[i][2].node : i \in 1..Len(el) } |->
        el[CHOOSE i \in 1..Len(el) :
              /\ el[i][2].node = k
              /\ \A j \in (i + 1)..Len(el) : el[j][2].node # k][2]]

\* A faulty variant: the source loop without its `continue`.
RECURSIVE FillSourcesOverwriting(_, _)
FillSourcesOverwriting(el, raw) ==
    IF el = <<>> THEN raw
    ELSE LET s == Head(el)[1]
         IN  FillSourcesOverwriting(Tail(el), (s.node :> s) @@ raw)

\* for s, _ in self.edge_list: if s["node"] in self.nodes_raw: continue; else store
RECURSIVE FillSources(_, _)
FillSources(el, raw) ==
    IF el = <<>> THEN raw
    ELSE LET s == Head(el)[1]
         IN  FillSources(Tail(el),
                         IF s.node \in DOMAIN raw THEN raw ELSE raw @@ (s.node :> s))

EdgeKeys(el) == [i \in 1..Len(el) |-> <<el[i][1].node, el[i][2].node>>]

node_path_attrs(node) ==
    LET p == Split(node, <<"/">>)
    IN  [basedir |-> p[1], stem |-> p[Len(p)], path |-> node]

is_src(node) == node \in Range(src_nodes)

is_tgt(node) == node \in Range(tgt_nodes)

\* A faulty variant: the target test first.
node_type_tgt_first(node) ==
    IF is_tgt(node) THEN "tgt"
    ELSE IF is_src(node) /\ is_tgt(node) THEN "hub"
    ELSE "src"

node_type(node) ==
    IF is_src(node) /\ is_tgt(node) THEN "hub"
    ELSE IF is_tgt(node) THEN "tgt"
    ELSE "src"

\* A faulty variant: the plan compared with the marker instead of searched for it.
is_update_pending_eq(node) ==
    IF node_type(node) = "src" THEN FALSE
    ELSE IF ~(nodes_raw[node].plan = NoUpdate) THEN TRUE
    ELSE FALSE

is_update_pending(node) ==
    IF node_type(node) = "src" THEN FALSE
    ELSE IF ~Contains(NoUpdate, nodes_raw[node].plan) THEN TRUE
    ELSE FALSE

----------------------------------------------------------------------------
(* Styles                                                                   *)

Quote == <<"\"">>
Dashed == <<",", "d", "a", "s", "h", "e", "d">>
Elem == << <<"r", "o", "u", "n", "d", "e", "d">>,
           <<"b", "o", "x", "e", "d">>,
           <<"d", "i", "a", "g", "o", "n", "a", "l", "s">> >>

\* list * k
RECURSIVE Times(_, _)
Times(s, k) == IF k <= 0 THEN <<>> ELSE s \o Times(s, k - 1)

get_node_styles(n) ==
    LET codes == [i \in 1..Len(Elem) |-> Quote \o Elem[i] \o Dashed \o Quote]
        ceil  == (n + Len(codes) - 1) \div Len(codes)
        rep   == IF n > Len(codes) THEN Times(codes, ceil) ELSE codes
    IN  SubSeq(rep, 1, n)

\* round(i * (1 / n), 3), in thousandths; an exact tie goes to the even digit.
\* (The float i * (1 / n) and the exact quotient round alike for every
\*  n below 80, which covers the n of this model.)
Round3(i, n) ==
    LET q == (1000 * i) \div n
        r == (1000 * i) % n
    IN  IF 2 * r < n THEN q
        ELSE IF 2 * r > n THEN q + 1
        ELSE IF q % 2 = 0 THEN q ELSE q + 1

\* rainbow(n, alpha) for n > 0; rainbow(0, alpha) raises ZeroDivisionError
rainbow(n, alpha) ==
    [i \in 1..n |-> [hue |-> Round3(i - 1, n), S |-> "1.000", V |-> "0.900",
                     alpha |-> alpha]]

Reverse(s) == [i \in 1..Len(s) |-> s[Len(s) + 1 - i]]

\* A faulty variant: the colours taken in the order rainbow yields them.
ColorsForward(n) == rainbow(n, 1)

\* colors = rainbow(self.n_src, alpha=1)[::-1]
Colors(n) == Reverse(rainbow(n, 1))

\* for i, n in enumerate(self.src_nodes): self.src_color[n] = colors[i]
SetSrcColor ==
    LET colors == Colors(n_src)
    IN  [k \in Range(src_nodes) |->
            colors[CHOOSE i \in 1..Len(src_nodes) : src_nodes[i] = k]]

TypeNames == <<"src", "tgt", "hub">>

\* styles = { k:styles[i] for i, k in enumerate(["src","tgt","hub"]) }
StylesByType ==
    LET styles == get_node_styles(3)
    IN  [k \in Range(TypeNames) |->
            styles[CHOOSE i \in 1..Len(TypeNames) : TypeNames[i] = k]]

\* the second loop of _set_node_sty
SetNodeTpStyle ==
    [n \in Range(nodes) |->
        LET sty == StylesByType[node_type(n)]
        IN  IF is_update_pending(n) THEN Replace(sty, Dashed, <<>>) ELSE sty]

----------------------------------------------------------------------------
(* Spec: main() from reading standard input to the constructed Digraph      *)

Init ==
    /\ pc = "start"
    /\ err = "none"
    /\ stdin \in Inputs
    /\ edge_list_in = <<>>
    /\ edge_list = <<>>
    /\ nodes_raw = <<>>
    /\ edges = <<>>
    /\ nodes = <<>>
    /\ src_nodes = <<>>
    /\ tgt_nodes = <<>>
    /\ n_src = 0
    /\ n_tgt = 0
    /\ basedirs = <<>>
    /\ n_basedir = 0
    /\ src_color = <<>>
    /\ node_tp_style = <<>>
    /\ doc = <<>>
    /\ tmp_exists = FALSE
    /\ tmp_lines = <<>>
    /\ file = <<>>
    /\ svg_string = <<>>
    /\ stdout = <<>>

\* f = read_stdin(); edge_list = parse_detailed_summary(f)
Parse ==
    /\ pc = "start"
    /\ edge_list_in' = parse_detailed_summary(stdin)
    /\ pc' = "parsed"
    /\ UNCHANGED <<err, stdin, graphVars, ioVars>>

\* Graph = Digraph(edge_list), _set_node_sty included
DigraphInit ==
    /\ pc = "parsed"
    /\ edge_list' = DedupAppend(edge_list_in, <<>>)
    /\ nodes_raw' = FillSources(edge_list', TargetSeed(edge_list'))
    /\ edges' = EdgeKeys(edge_list')
    /\ nodes' = Sorted(UNION { {e[1], e[2]} : e \in Range(edges') })
    /\ src_nodes' = Sorted({ e[1] : e \in Range(edges') })
    /\ tgt_nodes' = Sorted({ e[2] : e \in Range(edges') })
    /\ n_src' = Len(src_nodes')
    /\ n_tgt' = Len(tgt_nodes')
    /\ basedirs' = Sorted({ node_path_attrs(n).basedir : n \in Range(nodes') })
    /\ n_basedir' = Len(basedirs')
    /\ IF n_src' = 0
       THEN \* step = 1 / n raises in rainbow, before any colour or style is set
            /\ src_color' = <<>>
            /\ node_tp_style' = <<>>
            /\ err' = "ZeroDivisionError"
            /\ pc' = "failed"
       ELSE /\ src_color' = SetSrcColor'
            /\ node_tp_style' = SetNodeTpStyle'
            /\ err' = err
            /\ pc' = "built"
    /\ UNCHANGED <<stdin, edge_list_in, ioVars>>

Next == Parse \/ DigraphInit

Spec == Init /\ [][Next]_vars

----------------------------------------------------------------------------
(* What the claims speak of, read off the input pairs.                      *)

InKeyPairs ==
    [i \in 1..Len(edge_list_in) |->
        <<edge_list_in[i][1].node, edge_list_in[i][2].node>>]

\* the pairs of p without repetitions, each at the place of its first occurrence
FirstSeen(p) ==
    LET idx == { i \in 1..Len(p) : \A j \in 1..(i - 1) : p[j] # p[i] }
    IN  [n \in 1..Cardinality(idx) |->
            p[CHOOSE i \in idx : Cardinality({ j \in idx : j <= i }) = n]]

OccursAsSource(k) == \E i \in 1..Len(edge_list_in) : edge_list_in[i][1].node = k
OccursAsTarget(k) == \E i \in 1..Len(edge_list_in) : edge_list_in[i][2].node = k
InKeys == { k \in Keys : OccursAsSource(k) \/ OccursAsTarget(k) }
TargetDescriptors(k) ==
    { edge_list_in[i][2] : i \in { j \in 1..Len(edge_list_in) : edge_list_in[j][2].node = k } }

Abs(x) == IF x < 0 THEN -x ELSE x

\* C1 (as claimed): the edges of a built Digraph are the (source key, target
\* key) pairs of the input, each exactly once, in the order of their first
\* occurrence, whatever metadata the descriptors carry.
EdgesDedupFirstSeen ==
    pc = "built" => edges = FirstSeen(InKeyPairs)

\* C2: after construction every key that is the target of an input pair is
\* described by a target-side descriptor of that key, never by the blank
\* source-side descriptor, wherever its source occurrences stand; a key seen
\* only as a source keeps the blank descriptor.
TargetMetadataWins ==
    pc = "built" =>
        /\ DOMAIN nodes_raw = InKeys
        /\ \A k \in InKeys :
              IF OccursAsTarget(k)
              THEN nodes_raw[k] \in TargetDescriptors(k) /\ nodes_raw[k] # SrcDict(k)
              ELSE nodes_raw[k] = SrcDict(k)

\* a key occurs as a source before its first occurrence as a target, another
\* key occurs only as a source
WitnessSourceBeforeTarget ==
    /\ pc = "built"
    /\ \E i, j \in 1..Len(edge_list_in) :
          /\ i < j
          /\ edge_list_in[i][1].node = edge_list_in[j][2].node
          /\ \A h \in 1..i : edge_list_in[h][2].node # edge_list_in[i][1].node
    /\ \E k \in InKeys : ~OccursAsTarget(k)

\* C3 (as claimed): a node's style is without "dashed" exactly when its
\* pending-update flag is false.
DashedStrippedIffNotPending ==
    pc = "built" =>
        \A n \in Range(nodes) :
            (~Contains(<<"d", "a", "s", "h", "e", "d">>, node_tp_style[n]))
                <=> (is_update_pending(n) = FALSE)

\* the nodes the colours are about, and a node's place from the end of the
\* sorted order
SourceRole == { k \in InKeys : OccursAsSource(k) /\ ~OccursAsTarget(k) }
WithOutEdges == { k \in InKeys : OccursAsSource(k) }
RankFromLast(k, S) == Cardinality({ m \in S : StrLess(k, m) })

\* the nodes of S are coloured with the hues i/|S| (to three decimals), the
\* last of S in sorted order with hue 0, no two alike
HuesReverseSorted(S) ==
    /\ \A k \in S :
          /\ k \in DOMAIN src_color
          /\ 2 * Abs(src_color[k].hue * Cardinality(S) - 1000 * RankFromLast(k, S))
                <= Cardinality(S)
    /\ \A k, m \in S : k # m => src_color[k].hue # src_color[m].hue

EmptyInputCompletes ==
    (pc \in {"built", "failed"} /\ edge_list_in = <<>>) => (pc = "built" /\ err = "none")

ExampleRows ==
    << [output_file |-> KeyBY, input_files |-> KeyAX, date |-> "-", rule |-> "all",
        version |-> "-", status |-> "ok", plan |-> NoUpdate],
       [output_file |-> KeyCZ, input_files |-> KeyBY, date |-> "-", rule |-> "all",
        version |-> "-", status |-> "ok", plan |-> Rebuild] >>

\* C7: is_update_pending is false for a node that occurs only as a source; for
\* a node that is a target of some pair it is false exactly when the plan of
\* its merged descriptor contains "no update".  On the example rows a/x and
\* b/y are not pending and c/z is.
PendingFlag ==
    pc = "built" =>
        /\ \A n \in Range(nodes) :
              is_update_pending(n) =
                  IF ~OccursAsTarget(n) THEN FALSE
                  ELSE ~Contains(NoUpdate, nodes_raw[n].plan)
        /\ stdin = ExampleRows =>
              /\ ~is_update_pending(KeyAX)
              /\ ~is_update_pending(KeyBY)
              /\ is_update_pending(KeyCZ)

\* a hub whose plan holds the marker inside a longer text, and a pending target
WitnessPendingCases ==
    /\ pc = "built"
    /\ \E n \in Range(nodes) :
          OccursAsSource(n) /\ OccursAsTarget(n) /\ nodes_raw[n].plan = NoUpdates
    /\ \E n \in Range(nodes) :
          ~OccursAsSource(n) /\ nodes_raw[n].plan = Rebuild

\* C8: every node of a built Digraph has exactly one of the three types: src
\* when it occurs only as an edge source, tgt when it occurs only as an edge
\* target, hub when it occurs as both.
RoleClassification ==
    pc = "built" =>
        /\ Range(nodes) = InKeys
        /\ \A n \in Range(nodes) :
              /\ node_type(n) \in {"src", "tgt", "hub"}
              /\ node_type(n) = "src" <=> (OccursAsSource(n) /\ ~OccursAsTarget(n))
              /\ node_type(n) = "tgt" <=> (~OccursAsSource(n) /\ OccursAsTarget(n))
              /\ node_type(n) = "hub" <=> (OccursAsSource(n) /\ OccursAsTarget(n))

\* one node of each type
WitnessThreeRoles ==
    /\ pc = "built"
    /\ \E a, b, c \in Range(nodes) :
          node_type(a) = "src" /\ node_type(b) = "hub" /\ node_type(c) = "tgt"

----------------------------------------------------------------------------
(* The input of SpecIO: the markup the renderer writes.  Graphviz precedes  *)
(* every node and edge element by a comment line naming it; the arrow of an *)
(* edge comment is written &#45;&gt;.                                        *)

MaxLines == 3

CommentOpen  == <<"<", "!", "-", "-", " ">>
CommentClose == <<" ", "-", "-", ">">>
Arrow        == <<"&", "#", "4", "5", ";", "&", "g", "t", ";">>
NL           == <<"\n">>
ClassOpen    == <<"c", "l", "a", "s", "s", "=", "\"">>
TagClose     == <<"\"", ">">>
SvgEnd       == <<"<", "/", "s", "v", "g", ">">>
EdgeWord     == <<"e", "d", "g", "e">>
NodeWord     == <<"n", "o", "d", "e">>

KeyBangBY == <<"!", "b", ".", "y">>
MarkerKeys == {KeyAX, KeyBangBY}

EdgeMarker(s, t) == CommentOpen \o s \o Arrow \o t \o CommentClose \o NL
NodeMarker(k) == CommentOpen \o k \o CommentClose \o NL
EdgeElem == <<"<", "g", " ", "i", "d", "=", "\"", "e", "d", "g", "e", "1", "\"", " ">>
                \o ClassOpen \o EdgeWord \o TagClose \o NL
NodeElem == <<"<", "g", " ", "i", "d", "=", "\"", "n", "o", "d", "e", "1", "\"", " ">>
                \o ClassOpen \o NodeWord \o TagClose \o NL
SvgClose == SvgEnd \o NL

DocLines == { EdgeMarker(k, KeyCZ) : k \in MarkerKeys }
                \cup { NodeMarker(KeyAX), EdgeElem, NodeElem, SvgClose }

Docs == UNION { [1..n -> DocLines] : n \in 0..MaxLines }

----------------------------------------------------------------------------
(* add_svg_style                                                            *)

\* l.lstrip("<!-- ").rstrip(" -->").split("&#45;&gt;")[0], then the two replace
ClassName(l) ==
    LET stripped == RStrip(LStrip(l, CommentOpen), CommentClose)
        src_node == Split(stripped, Arrow)[1]
    IN  Replace(Replace(src_node, <<"/">>, <<"-">>), <<".">>, <<"-">>)

\* pat_g.sub(r'class="\1 ' + src_node + '">', line) with
\* pat_g = 'class="(edge|node)">'.  (src_node holds no backslash here, so the
\* template inserts it as it is.)
RECURSIVE PatGSub(_, _)
PatGSub(line, src_node) ==
    IF line = <<>> THEN <<>>
    ELSE IF \E g \in {EdgeWord, NodeWord} : StartsWith(line, ClassOpen \o g \o TagClose)
    THEN LET g == CHOOSE w \in {EdgeWord, NodeWord} :
                      StartsWith(line, ClassOpen \o w \o TagClose)
             n == Len(ClassOpen \o g \o TagClose)
         IN  ClassOpen \o g \o <<" ">> \o src_node \o TagClose
                \o PatGSub(SubSeq(line, n + 1, Len(line)), src_node)
    ELSE <<Head(line)>> \o PatGSub(Tail(line), src_node)

\* for i, l in enumerate(file): from (1-based) line i on, with the set
\* src_nodes gathered so far.  file[i+1] past the end raises IndexError.
RECURSIVE AnnotateLoop(_, _, _)
AnnotateLoop(f, i, names) ==
    IF i > Len(f) THEN [file |-> f, src_nodes |-> names, raised |-> FALSE]
    ELSE IF StartsWith(f[i], CommentOpen)
    THEN LET src_node == ClassName(f[i])
         IN  IF i + 1 > Len(f)
             THEN [file |-> f, src_nodes |-> names \cup {src_node}, raised |-> TRUE]
             ELSE AnnotateLoop([f EXCEPT ![i + 1] = PatGSub(f[i + 1], src_node)],
                               i + 1, names \cup {src_node})
    ELSE AnnotateLoop(f, i + 1, names)

\* one rule of the style sheet
HoverRule(node) ==
    <<".", "n", "o", "d", "e", ".">> \o node
        \o <<":", "h", "o", "v", "e", "r", " ", "~", " ", ".">> \o node
        \o <<"{", "s", "t", "r", "o", "k", "e", "-", "w", "i", "d", "t", "h", ":",
             " ", "5", ";", "}", "\n">>

RECURSIVE HoverRules(_)
HoverRules(order) ==
    IF order = <<>> THEN <<>> ELSE HoverRule(Head(order)) \o HoverRules(Tail(order))

\* style_str, the rules in the order `order` in which the set is iterated
StyleStr(order) ==
    <<"<", "s", "t", "y", "l", "e", ">">>
        \o <<"g", ".", "e", "d", "g", "e", ":", "h", "o", "v", "e", "r", " ", "*", " ",
             "{", "s", "t", "r", "o", "k", "e", "-", "w", "i", "d", "t", "h", ":",
             " ", "5", ";", "}", "\n">>
        \o HoverRules(order)
        \o <<"<", "/", "s", "t", "y", "l", "e", ">", "<", "/", "s", "v", "g", ">">>

\* the orders in which a Python set of strings may be iterated
IterationOrders(S) == { p \in [1..Cardinality(S) -> S] : Range(p) = S }

----------------------------------------------------------------------------
(* SpecIO: main() from the renderer's write to the end of the process       *)

InitIO ==
    /\ pc = "render"
    /\ err = "none"
    /\ stdin = <<>>
    /\ edge_list_in = <<>>
    /\ edge_list = <<>>
    /\ nodes_raw = <<>>
    /\ edges = <<>>
    /\ nodes = <<>>
    /\ src_nodes = <<>>
    /\ tgt_nodes = <<>>
    /\ n_src = 0
    /\ n_tgt = 0
    /\ basedirs = <<>>
    /\ n_basedir = 0
    /\ src_color = <<>>
    /\ node_tp_style = <<>>
    /\ doc \in Docs
    /\ tmp_exists = FALSE
    /\ tmp_lines = <<>>
    /\ file = <<>>
    /\ svg_string = <<>>
    /\ stdout = <<>>

\* DotGraph.write_svg(tmp): the renderer runs and its output is written to tmp
WriteSvg ==
    /\ pc = "render"
    /\ tmp_exists' = TRUE
    /\ tmp_lines' = doc
    /\ pc' = "annotate"
    /\ UNCHANGED <<err, stdin, edge_list_in, graphVars, doc, file, svg_string, stdout>>

\* DotGraph.write_svg(tmp) raises: the renderer failed, before tmp is opened
WriteSvgFails ==
    /\ pc = "render"
    /\ err' = "RendererError"
    /\ pc' = "failed"
    /\ UNCHANGED <<stdin, edge_list_in, graphVars, ioVars>>

\* svg_string = add_svg_style(tmp)
AddSvgStyle ==
    /\ pc = "annotate"
    /\ LET r == AnnotateLoop(tmp_lines, 1, {})
       IN  /\ file' = r.file
           /\ IF r.raised
              THEN /\ err' = "IndexError"
                   /\ pc' = "failed"
                   /\ svg_string' = svg_string
              ELSE /\ \E order \in IterationOrders(r.src_nodes) :
                          svg_string' = Replace(Join(r.file), SvgEnd, StyleStr(order))
                   /\ err' = err
                   /\ pc' = "write"
    /\ UNCHANGED <<stdin, edge_list_in, graphVars, doc, tmp_exists, tmp_lines, stdout>>

\* write_stdout(svg_string)
WriteStdout ==
    /\ pc = "write"
    /\ stdout' = svg_string
    /\ pc' = "unlink"
    /\ UNCHANGED <<err, stdin, edge_list_in, graphVars, doc, tmp_exists, tmp_lines,
                   file, svg_string>>

\* write_stdout(svg_string) raises (the reader of the pipe has gone), at the
\* first character or at the last
WriteStdoutFails ==
    /\ pc = "write"
    /\ svg_string # <<>>
    /\ \E k \in {0, Len(svg_string) - 1} : stdout' = SubSeq(svg_string, 1, k)
    /\ err' = "BrokenPipeError"
    /\ pc' = "failed"
    /\ UNCHANGED <<stdin, edge_list_in, graphVars, doc, tmp_exists, tmp_lines,
                   file, svg_string>>

\* Path(tmp).unlink(), and main returns
Unlink ==
    /\ pc = "unlink"
    /\ tmp_exists' = FALSE
    /\ pc' = "done"
    /\ UNCHANGED <<err, stdin, edge_list_in, graphVars, doc, tmp_lines, file,
                   svg_string, stdout>>

NextIO == WriteSvg \/ WriteSvgFails \/ AddSvgStyle \/ WriteStdout \/ WriteStdoutFails \/ Unlink

SpecIO == InitIO /\ [][NextIO]_vars

----------------------------------------------------------------------------
(* The claims about the second half of main().                              *)

\* the annotation pass ran over tmp_lines (to its end or to an exception)
PassRan ==
    \/ pc \in {"write", "unlink", "done"}
    \/ pc = "failed" /\ err \in {"IndexError", "BrokenPipeError"}

\* the class token the claims derive from a source key
ClassToken(k) == Replace(Replace(k, <<"/">>, <<"-">>), <<".">>, <<"-">>)

\* C6 (as claimed): when the process ends, on whatever path, the transient
\* file no longer exists.
TmpFileRemovedAtExit ==
    pc \in {"done", "failed"} => ~tmp_exists

\* C9 (as claimed): after a pass that ran to its end, the element line that
\* follows an edge marker carries the class the renderer gave it and, in the
\* same attribute, the class token of the marker's source key.
EdgeElementsCarrySourceClass ==
    (PassRan /\ err # "IndexError") =>
        \A i \in 1..(Len(doc) - 1) : \A k \in MarkerKeys :
            (doc[i] = EdgeMarker(k, KeyCZ) /\ doc[i + 1] = EdgeElem) =>
                file[i + 1] =
                    <<"<", "g", " ", "i", "d", "=", "\"", "e", "d", "g", "e", "1", "\"", " ">>
                        \o ClassOpen \o EdgeWord \o <<" ">> \o ClassToken(k) \o TagClose \o NL

\* C10 (as claimed): a comment line without an arrow never makes the pass
\* raise, and the line after it is left as the renderer wrote it.
NonEdgeMarkersSkipped ==
    PassRan =>
        /\ err # "IndexError"
        /\ \A i \in 1..(Len(doc) - 1) :
              (StartsWith(doc[i], CommentOpen) /\ ~Contains(Arrow, doc[i])) =>
                  file[i + 1] = doc[i + 1]

====
